---------------------------- MODULE Spec2Model ----------------------------
(***************************************************************************)
(* Watermark Genie 2.0 (src/watermark_gienie.py): the batch compositing    *)
(* pipeline.  The GUI batch run (start_processing, _process_images with    *)
(* its worker pool, cancel_processing, the callbacks of the main loop) and *)
(* the CLI run are a state machine; the sizing heuristic, the compositor,  *)
(* the codec's path rules, discovery and the resize are operators, also    *)
(* applied on their own (SpecWidth, SpecPaste, SpecFind, SpecResize).      *)
(* SpecPool is the executor alone on larger machines and batches, and      *)
(* SpecLive the batch run with the threads scheduled fairly.               *)
(***************************************************************************)
EXTENDS Integers, Sequences, FiniteSets, TLC

(***************************************************************************)
(* Bounds of the model.                                                    *)
(***************************************************************************)
\* number of image files in the input directory
NumFiles == 3
\* largest os.cpu_count() the scheduler specification considers
MaxCpu == 2
\* number of tasks of one run in which a step may raise
MaxFaults == 1
\* base image sides of the sizing specification run over 1..MaxSide
MaxSide == 48
\* the sizing specification takes every ScaleStep-th scale percentage
ScaleStep == 7
\* the discovery specification walks directories of at most MaxEntries entries
MaxEntries == 3
\* whose entries lie at most MaxTreeDepth directory levels below the root
MaxTreeDepth == 2
\* the resize specification takes max_dimension from 1..MaxTarget
MaxTarget == 12
\* the pool specification takes machines of 1..MaxPoolCpu processors
MaxPoolCpu == 9
\* and batches of 0..MaxPoolFiles files
MaxPoolFiles == 9

(***************************************************************************)
(* Arithmetic as Python computes it.                                       *)
(***************************************************************************)
Max(a, b) == IF a >= b THEN a ELSE b

Min(a, b) == IF a <= b THEN a ELSE b

\* int(a / b) for b > 0: true division, then truncation toward zero.  The
\* quotients of the program (a below 2^31, b at most a few thousand) are
\* either integers or at least 1/b away from one, so the double nearest to
\* a / b truncates to the same integer as the exact quotient.
Trunc(a, b) == IF a >= 0 THEN a \div b ELSE -((-a) \div b)

\* int(x + 1/2) of the non-negative rational a / b: round() with halves up
RoundHalfUp(a, b) == (2 * a + b) \div (2 * b)

\* Python 3 round() of the non-negative rational a / b: halves to even
RoundHalfEven(a, b) ==
    LET q == a \div b
        r == a % b
    IN  IF 2 * r < b THEN q
        ELSE IF 2 * r > b THEN q + 1
        ELSE IF q % 2 = 0 THEN q ELSE q + 1

(***************************************************************************)
(* ImageProcessor.resize_maintain_aspect: the size of the returned image.  *)
(* Image.resize raises ValueError unless width and height are positive;    *)
(* ResizeRaises tells so.                                                  *)
(***************************************************************************)
resize_maintain_aspect(size, max_dimension) ==
    LET width == size[1]
        height == size[2]
    IN  IF Max(width, height) <= max_dimension THEN size
        ELSE IF width >= height
             THEN <<max_dimension, Trunc(max_dimension * height, width)>>
             ELSE <<Trunc(max_dimension * width, height), max_dimension>>

ResizeRaises(size, max_dimension) ==
    LET new == resize_maintain_aspect(size, max_dimension)
    IN  Max(size[1], size[2]) > max_dimension /\ (new[1] <= 0 \/ new[2] <= 0)

(***************************************************************************)
(* The target watermark width, at its three call sites.  int(w * 0.5) is   *)
(* w \div 2, int(n * scale / 100) is Trunc(n * scale, 100), and            *)
(* int(w * scale / 100 * 1.5) is Trunc(3 * w * scale, 200): the product    *)
(* 3 * w * scale / 200 is an integer only when w * scale / 100 is an even  *)
(* integer, which the doubles hold exactly.                                *)
(***************************************************************************)
\* the batch computation with a square image taken for a portrait
BatchTargetWidth_SquarePortrait(base_width, base_height, scale, auto_scale) ==
    LET is_portrait == base_height >= base_width
    IN  IF auto_scale
        THEN IF is_portrait
             THEN Max(40, Trunc(base_width, 2))
             ELSE Max(40, Trunc(Min(base_width, base_height) * scale, 100))
        ELSE IF is_portrait
             THEN Max(40, Trunc(3 * base_width * scale, 200))
             ELSE Max(40, Trunc(base_width * scale, 100))

\* the batch computation without the floor of 40 on auto-scaled portraits
BatchTargetWidth_AutoPortraitUnfloored(base_width, base_height, scale, auto_scale) ==
    LET is_portrait == base_height > base_width
    IN  IF auto_scale
        THEN IF is_portrait
             THEN Trunc(base_width, 2)
             ELSE Max(40, Trunc(Min(base_width, base_height) * scale, 100))
        ELSE IF is_portrait
             THEN Max(40, Trunc(3 * base_width * scale, 200))
             ELSE Max(40, Trunc(base_width * scale, 100))

\* process_single_file, the GUI batch task
BatchTargetWidth(base_width, base_height, scale, auto_scale) ==
    LET is_portrait == base_height > base_width
    IN  IF auto_scale
        THEN IF is_portrait
             THEN Max(40, Trunc(base_width, 2))
             ELSE Max(40, Trunc(Min(base_width, base_height) * scale, 100))
        ELSE IF is_portrait
             THEN Max(40, Trunc(3 * base_width * scale, 200))
             ELSE Max(40, Trunc(base_width * scale, 100))

\* _update_single_preview
PreviewTargetWidth(base_width, base_height, scale, auto_scale) ==
    LET is_portrait == base_height > base_width
    IN  IF auto_scale
        THEN IF is_portrait
             THEN Max(40, Trunc(base_width, 2))
             ELSE Max(40, Trunc(Min(base_width, base_height) * scale, 100))
        ELSE IF is_portrait
             THEN Max(40, Trunc(3 * base_width * scale, 200))
             ELSE Max(40, Trunc(base_width * scale, 100))

\* the CLI computation without the 1.5 boost of manual portraits
CliTargetWidth_NoBoost(base_width, base_height, scale, auto_scale) ==
    LET is_portrait == base_height > base_width
    IN  IF auto_scale
        THEN IF is_portrait
             THEN Max(40, Trunc(base_width, 2))
             ELSE Max(40, Trunc(Min(base_width, base_height) * scale, 100))
        ELSE Max(40, Trunc(base_width * scale, 100))

\* WatermarkGenieCLI.run
CliTargetWidth(base_width, base_height, scale, auto_scale) ==
    LET is_portrait == base_height > base_width
    IN  IF auto_scale
        THEN IF is_portrait
             THEN Max(40, Trunc(base_width, 2))
             ELSE Max(40, Trunc(Min(base_width, base_height) * scale, 100))
        ELSE IF is_portrait
             THEN Max(40, Trunc(3 * base_width * scale, 200))
             ELSE Max(40, Trunc(base_width * scale, 100))


(***************************************************************************)
(* Paths.  A directory path is a flag (absolute or relative) and its       *)
(* parts; a file name is the sequence of its dot-separated pieces, so      *)
(* "b.c.webp" is <<"b", "c", "webp">>.                                     *)
(***************************************************************************)
\* the process's working directory
Cwd == <<"home">>

RelPath(parts) == [abs |-> FALSE, parts |-> parts]

AbsPath(parts) == [abs |-> TRUE, parts |-> parts]

IsPrefix(s, t) == Len(s) <= Len(t) /\ SubSeq(t, 1, Len(s)) = s

\* Path.relative_to(other) succeeds: a comparison of the paths as written
RelativeToOk(path, other) ==
    path.abs = other.abs /\ IsPrefix(other.parts, path.parts)

\* where the operating system finds the path
Resolve(path) == IF path.abs THEN path.parts ELSE Cwd \o path.parts

\* the directory `inner` is `outer` or lies below it
IsInside(inner, outer) == IsPrefix(Resolve(outer), Resolve(inner))

\* Path.suffix of a file name, without its dot ("" when there is none)
Suffix(name) == IF Len(name) > 1 THEN name[Len(name)] ELSE ""

\* Path.with_suffix('')
DropSuffix(name) == IF Len(name) > 1 THEN SubSeq(name, 1, Len(name) - 1) ELSE name

\* Path.with_suffix('.' + ext)
WithSuffix(name, ext) == Append(DropSuffix(name), ext)

\* f"{name}.{ext}"
PlusExt(name, ext) == Append(name, ext)

(***************************************************************************)
(* FileManager.validate_paths: the error message, "ok" when valid.         *)
(***************************************************************************)
validate_paths(input_dir, output_dir, watermark_file) ==
    IF ~input_dir.is_dir THEN "Input directory does not exist"
    ELSE IF ~watermark_file.is_file THEN "Watermark file does not exist"
    ELSE IF watermark_file.suffix # "png" THEN "Watermark must be a PNG file"
    ELSE IF RelativeToOk(output_dir.path, input_dir.path)
         THEN "Output directory cannot be inside input directory"
    ELSE "ok"

(***************************************************************************)
(* Formats.                                                                *)
(***************************************************************************)
NoneFmt == "None"

\* FORMAT_OPTIONS.get / EXTRA_FORMAT_OPTIONS.get
FORMAT_OPTIONS(key) ==
    CASE key = "JPG" -> "JPEG"
      [] key = "PNG" -> "PNG"
      [] key = "WEBP" -> "WEBP"
      [] OTHER -> NoneFmt

EXTRA_FORMAT_OPTIONS(key) ==
    CASE key = "JPG" -> "JPEG"
      [] key = "PNG" -> "PNG"
      [] key = "WEBP" -> "WEBP"
      [] OTHER -> NoneFmt

\* str.lower() of a format name
Lower(fmt) ==
    CASE fmt = "JPEG" -> "jpeg"
      [] fmt = "PNG" -> "png"
      [] fmt = "WEBP" -> "webp"
      [] OTHER -> fmt

\* file_path.suffix.upper()[1:], with 'JPG' renamed 'JPEG'
OriginalFormat(name) ==
    LET s == Suffix(name)
    IN  CASE s = "jpg" -> "JPEG"
          [] s = "jpeg" -> "JPEG"
          [] s = "png" -> "PNG"
          [] s = "webp" -> "WEBP"
          [] s = "tif" -> "TIF"
          [] s = "tiff" -> "TIFF"
          [] s = "bmp" -> "BMP"
          [] OTHER -> s

\* ImageProcessor.save_image: the name of the file it writes
save_image(output_path, format_type) ==
    IF format_type = "JPEG" THEN WithSuffix(output_path, "jpg")
    ELSE IF format_type = "WEBP" THEN WithSuffix(output_path, "webp")
    ELSE WithSuffix(output_path, "png")

\* WatermarkGenieGUI._check_file_exists, over the names present in the
\* output directory
check_file_exists(present, output_path, main_format, extra_format) ==
    \/ /\ main_format # NoneFmt
       /\ PlusExt(output_path, Lower(main_format)) \in present
    \/ /\ main_format = NoneFmt
       /\ \E ext \in {"jpg", "jpeg", "png", "webp"} :
              PlusExt(output_path, ext) \in present
    \/ /\ extra_format # NoneFmt
       /\ PlusExt(output_path, Lower(extra_format)) \in present


(***************************************************************************)
(* The images of the input directory (all in its root): file i has name    *)
(* FileName(i) and decodes to an image of size FileSize(i).                *)
(***************************************************************************)
Files == 1 .. NumFiles

FileNames ==
    << <<"a", "jpg">>, <<"a", "png">>, <<"b", "c", "webp">>, <<"d", "tif">>,
       <<"e", "jpeg">>, <<"f", "bmp">> >>

FileSizes ==
    << <<800, 600>>, <<600, 800>>, <<1600, 1200>>, <<50, 50>>,
       <<1000, 1000>>, <<30, 2000>> >>

FileName(f) == FileNames[((f - 1) % Len(FileNames)) + 1]

FileSize(f) == FileSizes[((f - 1) % Len(FileSizes)) + 1]

\* output_dir / file_path.relative_to(input_dir).with_suffix(''), as a name
\* in the output directory
OutputPath(f) == DropSuffix(FileName(f))

(***************************************************************************)
(* ImageProcessor.apply_watermark.  An image buffer of the watermark is    *)
(* [width, height, alpha], alpha the value of its opaque pixels.           *)
(***************************************************************************)
\* the (width, target) pairs of the modelled watermarks (widths up to 64, and
\* 200) at which the double product width * (target / width) falls just
\* below the integer target
FloatShort ==
    {<<200, 57>>, <<200, 58>>, <<200, 113>>, <<200, 114>>, <<200, 115>>,
     <<200, 116>>,
     <<39, 31>>, <<43, 31>>, <<44, 30>>, <<47, 31>>, <<49, 32>>, <<51, 31>>,
     <<52, 30>>, <<55, 30>>, <<55, 31>>, <<58, 31>>}

\* int(side * scale_factor), scale_factor = target_width / width
ScaledSide(side, target_width, width) ==
    IF side = width /\ <<width, target_width>> \in FloatShort
    THEN target_width - 1
    ELSE Trunc(side * target_width, width)

\* alpha.point(lambda p: int(p * opacity / 100)), stored in 8 bits
AlphaPoint(p, opacity) == Max(0, Min(255, Trunc(p * opacity, 100)))

HasLetter(position, letter) == \E i \in 1 .. Len(position) : position[i] = letter

\* watermark.resize(new_size) raises ValueError: a side of new_size is 0
WatermarkResizeRaises(watermark, target_width) ==
    LET floor_width == Max(target_width, 30)
    IN  /\ watermark.width > floor_width
        /\ \/ ScaledSide(watermark.width, floor_width, watermark.width) <= 0
           \/ ScaledSide(watermark.height, floor_width, watermark.width) <= 0

\* apply_watermark with the margin also taken off a centered axis
apply_watermark_MarginOnCenter(base_size, watermark, position, opacity, margin, target_width) ==
    LET floor_width == Max(target_width, 30)
        resized == watermark.width > floor_width
        scaled ==
            IF resized
            THEN [width |-> ScaledSide(watermark.width, floor_width, watermark.width),
                  height |-> ScaledSide(watermark.height, floor_width, watermark.width),
                  alpha |-> watermark.alpha]
            ELSE watermark
        faded ==
            IF opacity < 100
            THEN [scaled EXCEPT !.alpha = AlphaPoint(@, opacity)]
            ELSE scaled
        x == IF HasLetter(position, "L") THEN margin
             ELSE IF HasLetter(position, "R") THEN base_size[1] - faded.width - margin
             ELSE (base_size[1] - faded.width) \div 2 - margin
        y == IF HasLetter(position, "T") THEN margin
             ELSE IF HasLetter(position, "B") THEN base_size[2] - faded.height - margin
             ELSE (base_size[2] - faded.height) \div 2 - margin
    IN  [shared |-> IF resized THEN watermark ELSE faded,
         pasted |-> faded,
         at |-> <<x, y>>]

\* [shared: the caller's watermark object after the call,
\*  pasted: the buffer that is pasted, at: the paste offset]
apply_watermark(base_size, watermark, position, opacity, margin, target_width) ==
    LET floor_width == Max(target_width, 30)
        resized == watermark.width > floor_width
        scaled ==
            IF resized
            THEN [width |-> ScaledSide(watermark.width, floor_width, watermark.width),
                  height |-> ScaledSide(watermark.height, floor_width, watermark.width),
                  alpha |-> watermark.alpha]
            ELSE watermark
        faded ==
            IF opacity < 100
            THEN [scaled EXCEPT !.alpha = AlphaPoint(@, opacity)]
            ELSE scaled
        x == IF HasLetter(position, "L") THEN margin
             ELSE IF HasLetter(position, "R") THEN base_size[1] - faded.width - margin
             ELSE (base_size[1] - faded.width) \div 2
        y == IF HasLetter(position, "T") THEN margin
             ELSE IF HasLetter(position, "B") THEN base_size[2] - faded.height - margin
             ELSE (base_size[2] - faded.height) \div 2
    IN  [shared |-> IF resized THEN watermark ELSE faded,
         pasted |-> faded,
         at |-> <<x, y>>]

(***************************************************************************)
(* Settings.                                                               *)
(***************************************************************************)
DEFAULT_SETTINGS ==
    [anchor |-> <<"B", "R">>, opacity |-> 80, margin |-> 25, scale |-> 30,
     max_size |-> 1000, format |-> "Same as source", extra_format |-> "None",
     auto_scale |-> FALSE, dry_run |-> FALSE, create_zip |-> FALSE,
     overwrite_mode |-> "ask"]

\* the ranges of the numeric settings (options_data, the CLI's help)
InRange(s) ==
    /\ s.opacity \in 0 .. 100
    /\ s.margin >= 0
    /\ s.scale \in 1 .. 100
    /\ s.max_size >= 1


(***************************************************************************)
(* What one task does with its file once the image is composited           *)
(* (process_single_file, from "Save files if not dry run" on).             *)
(***************************************************************************)
SkippedLabel == <<"SKIPPED - File exists">>

DryRunLabel == <<"DRY RUN">>

MainFormat(s) == FORMAT_OPTIONS(s.format)

ExtraFormat(s) == EXTRA_FORMAT_OPTIONS(s.extra_format)

\* the extra format is saved too
SavesExtra(s) == ExtraFormat(s) # NoneFmt /\ ExtraFormat(s) # MainFormat(s)

\* should_process
ShouldProcess(present, f, s) ==
    ~ (/\ check_file_exists(present, OutputPath(f), MainFormat(s), ExtraFormat(s))
       /\ s.overwrite_mode = "skip")

\* the names save_image writes, in order
WrittenNames(f, s) ==
    LET main == IF MainFormat(s) # NoneFmt
                THEN save_image(OutputPath(f), MainFormat(s))
                ELSE save_image(OutputPath(f), OriginalFormat(FileName(f)))
    IN  IF SavesExtra(s)
        THEN <<main, save_image(OutputPath(f), ExtraFormat(s))>>
        ELSE <<main>>

\* saved_files after a save
SavedFiles(f, s) ==
    LET main == IF MainFormat(s) # NoneFmt
                THEN PlusExt(OutputPath(f), Lower(MainFormat(s)))
                ELSE WithSuffix(OutputPath(f), Suffix(FileName(f)))
    IN  IF SavesExtra(s)
        THEN <<main, PlusExt(OutputPath(f), Lower(ExtraFormat(s)))>>
        ELSE <<main>>

Range(seq) == {seq[i] : i \in 1 .. Len(seq)}

\* the output directory after file f's task wrote `names`
WriteAll(out, names, f) ==
    {e \in out : e.name \notin Range(names)}
        \cup {[name |-> n, by |-> f] : n \in Range(names)}

\* the result dictionaries process_single_file returns
SuccessResult(f, output_file) ==
    [source_file |-> f, output_file |-> output_file, status |-> "SUCCESS",
     error |-> ""]

ErrorResult(f, error_msg) ==
    [source_file |-> f, output_file |-> <<>>, status |-> "ERROR",
     error |-> error_msg]

Pending == [source_file |-> 0, output_file |-> <<>>, status |-> "PENDING", error |-> ""]

NoImage == [size |-> <<0, 0>>, pasted |-> [width |-> 0, height |-> 0, alpha |-> 0],
            at |-> <<0, 0>>]

NoWatermark == [width |-> 0, height |-> 0, alpha |-> 0]

\* str(e) of the exceptions a step may raise: MemoryError() carries no text
ErrMsgs == {"", "cannot identify image file"}

\* the steps of a task that may raise, before and after the composite is made
EarlySteps == {"decode", "resize", "composite"}

LateSteps == {"check", "encode"}


(***************************************************************************)
(* State.                                                                  *)
(***************************************************************************)
VARIABLES
    \* what the run is given: the fields of the window and the machine
    input_dir,        \* [path, is_dir]
    output_dir,       \* [path, exists]
    watermark_file,   \* [is_file, suffix, decodes, image]
    settings,         \* the settings dictionary, with overwrite_mode
    cpu_count,        \* os.cpu_count(), 0 for None
    found,            \* the images find_supported_images returns, in order
    existing,         \* the names present in the output directory at first
    may_raise,        \* how many tasks of this run may raise from a step
    may_cancel,       \* whether the user presses Cancel in this run
    ui_lag,           \* whether the main loop may be late to run callbacks
    \* the window
    pc,               \* where start_processing / _process_images stands
    message,          \* the text of the last error box
    stop_event,
    start_button,
    cancel_button,
    \* _process_images
    files,            \* its argument
    watermark,        \* the watermark decoded once, shared by the tasks
    next_submit,      \* index in files of the next executor.submit
    task,             \* per file: [st, watermarked, wrote]
    future,           \* per file: the result its future holds
    yielded,          \* the futures as_completed has handed out
    results,
    processed_count,
    \* the file system
    out_dir_made,     \* output_dir.mkdir was called
    out_files,        \* the files in the output directory: [name, by]
    csv_log,          \* the rows of the log file, <<Pending>> when not written
    zip_members,      \* the names archived
    \* history
    wm_loaded,        \* the watermark as it was decoded
    at_cancel,        \* the tasks queued or running at the first cancel
    faults,           \* how many tasks raised from a step
    \* the main loop of the window
    after_queue,      \* the progress callbacks root.after has queued
    delivered,        \* the values the progress bar was configured with
    \* the sizing heuristic applied on its own
    sizing,
    \* another function of the program applied on its own
    call

run_vars ==
    <<input_dir, output_dir, watermark_file, settings, cpu_count, found,
      existing, may_raise, may_cancel, pc, message, stop_event, start_button, cancel_button, files,
      watermark, next_submit, task, future, yielded, results, processed_count,
      out_dir_made, out_files, csv_log, zip_members, wm_loaded, at_cancel,
      faults, after_queue, delivered, ui_lag>>

vars == <<run_vars, sizing, call>>

env_vars ==
    <<input_dir, output_dir, watermark_file, settings, cpu_count, found,
      existing, may_raise, may_cancel, ui_lag>>

\* the progress callbacks handed to the main loop
ui_vars == <<after_queue, delivered>>

(***************************************************************************)
(* Program constants.                                                      *)
(***************************************************************************)
MAX_BATCH_SIZE == 5000

\* the ceiling of max_workers
WorkerCeiling == 8

\* the worker count when os.cpu_count() is None
DefaultCpu == 4

\* the worker count without the ceiling
max_workers_NoCeiling == IF cpu_count = 0 THEN DefaultCpu ELSE cpu_count

\* max_workers = min(os.cpu_count() or 4, 8)
max_workers == Min(IF cpu_count = 0 THEN DefaultCpu ELSE cpu_count, WorkerCeiling)

LogName == <<"watermark_processing_log", "csv">>

ZipName == <<"watermarked_batch", "zip">>


(***************************************************************************)
(* FileManager.find_supported_images.  The directory is the sequence of    *)
(* the entries rglob('*') yields, each [depth, is_file, suffix, opens]:    *)
(* depth counts the directories between the root and the entry (0 for a    *)
(* child of the root), opens tells whether Image.open succeeds.  The       *)
(* images returned are the positions of their entries.                     *)
(***************************************************************************)
SUPPORTED_FORMATS == {"jpg", "jpeg", "png", "webp", "tif", "tiff", "bmp"}

\* the "known unsupported formats" that are counted as ignored
KNOWN_UNSUPPORTED == {"avif", "heic", "gif", "tga", "pcx"}

MAX_DIRECTORY_DEPTH == 50

\* file_path.suffix.lower(), without the dot
SuffixLower(suffix) ==
    CASE suffix = "JPG" -> "jpg"
      [] suffix = "PNG" -> "png"
      [] OTHER -> suffix

\* the elements of a set of positions, in increasing order
InOrder(S) ==
    [k \in 1 .. Cardinality(S) |->
        CHOOSE i \in S : Cardinality({j \in S : j <= i}) = k]

\* the entries the loop iterates over: rglob('*') or iterdir()
Iterated(listing, include_subfolders) ==
    {i \in 1 .. Len(listing) : include_subfolders \/ listing[i].depth = 0}

\* the test at the head of the loop body;
\* len(file_path.parts) - len(directory.parts) is depth + 1
PassesHead(entry, max_depth, include_subfolders) ==
    /\ entry.is_file
    /\ include_subfolders => entry.depth + 1 <= max_depth

\* the walk with a decode failure left to the outer except, which ends it
find_supported_images_AbortOnBadFile(is_dir, listing, max_depth, include_subfolders) ==
    LET iterated == Iterated(listing, include_subfolders)
        supported(i) == /\ PassesHead(listing[i], max_depth, include_subfolders)
                        /\ SuffixLower(listing[i].suffix) \in SUPPORTED_FORMATS
        broken == {i \in iterated : supported(i) /\ ~listing[i].opens}
        before == {i \in iterated : \A j \in broken : i < j}
    IN  IF ~is_dir THEN [images |-> <<>>, ignored |-> 0]
        ELSE [images |-> InOrder({i \in before : supported(i)}),
              ignored |-> Cardinality({i \in before :
                              /\ PassesHead(listing[i], max_depth, include_subfolders)
                              /\ SuffixLower(listing[i].suffix) \in KNOWN_UNSUPPORTED})]

find_supported_images(is_dir, listing, max_depth, include_subfolders) ==
    LET iterated == Iterated(listing, include_subfolders)
        supported(i) == /\ PassesHead(listing[i], max_depth, include_subfolders)
                        /\ SuffixLower(listing[i].suffix) \in SUPPORTED_FORMATS
        appended(i) == supported(i) /\ listing[i].opens
        counted(i) ==
            \/ supported(i) /\ ~listing[i].opens
            \/ /\ PassesHead(listing[i], max_depth, include_subfolders)
               /\ ~supported(i)
               /\ SuffixLower(listing[i].suffix) \in KNOWN_UNSUPPORTED
        \* the loop breaks once len(images) >= MAX_BATCH_SIZE
        reached == {i \in iterated :
                      Cardinality({j \in iterated : j < i /\ appended(j)})
                          < MAX_BATCH_SIZE}
    IN  IF ~is_dir THEN [images |-> <<>>, ignored |-> 0]
        ELSE [images |-> InOrder({i \in reached : appended(i)}),
              ignored |-> Cardinality({i \in reached : counted(i)})]

(***************************************************************************)
(* The runs considered.  A scenario fixes what a run is given.             *)
(***************************************************************************)
\* a 200 x 80 logo, and one narrower than any target width
Logo == [width |-> 200, height |-> 80, alpha |-> 255]

SmallLogo == [width |-> 36, height |-> 12, alpha |-> 200]

PhotosDir == [path |-> RelPath(<<"photos">>), is_dir |-> TRUE]

\* the output directory, not made yet, and already there
OutDir == [path |-> RelPath(<<"out">>), exists |-> FALSE]

OutDirPresent == [path |-> RelPath(<<"out">>), exists |-> TRUE]

GoodWatermark(image) ==
    [is_file |-> TRUE, suffix |-> "png", decodes |-> TRUE, image |-> image]

AllFiles == [i \in 1 .. NumFiles |-> i]

Scenario(in, out, wm, s, cpu, fnd, ex, raises, cancels) ==
    [input_dir |-> in, output_dir |-> out, watermark_file |-> wm, settings |-> s,
     cpu_count |-> cpu, found |-> fnd, existing |-> ex, may_raise |-> raises,
     may_cancel |-> cancels, ui_lag |-> FALSE]

\* the scheduler under every worker count, with steps that raise, and its
\* dry-run and archive variants
SchedScenarios ==
    {Scenario(PhotosDir, OutDir, GoodWatermark(Logo), DEFAULT_SETTINGS,
              cpu, AllFiles, {}, MaxFaults, TRUE) : cpu \in 1 .. MaxCpu}
        \cup {Scenario(PhotosDir, out, GoodWatermark(Logo),
                       [DEFAULT_SETTINGS EXCEPT !.dry_run = d, !.create_zip = z],
                       MaxCpu, AllFiles, {}, 0, TRUE) :
                 d \in BOOLEAN, z \in BOOLEAN, out \in {OutDir, OutDirPresent}}

\* a main loop that may be late to run the progress callbacks
Lagging(sc) == [sc EXCEPT !.ui_lag = TRUE]

ProgressScenarios ==
    {Lagging(Scenario(PhotosDir, OutDir, GoodWatermark(Logo), DEFAULT_SETTINGS,
                      cpu, AllFiles, {}, 0, FALSE)) : cpu \in 1 .. MaxCpu}

\* the paths of the window, as typed
InputDirs ==
    {PhotosDir,
     [path |-> AbsPath(<<"home", "photos">>), is_dir |-> TRUE],
     [path |-> RelPath(<<"missing">>), is_dir |-> FALSE]}

OutputDirs ==
    {OutDir,
     [path |-> RelPath(<<"photos">>), exists |-> TRUE],
     [path |-> RelPath(<<"photos", "out">>), exists |-> FALSE],
     [path |-> AbsPath(<<"home", "photos", "out">>), exists |-> FALSE],
     [path |-> AbsPath(<<"home", "out">>), exists |-> FALSE]}

WatermarkFiles ==
    {GoodWatermark(Logo),
     [is_file |-> FALSE, suffix |-> "png", decodes |-> FALSE, image |-> NoWatermark],
     [is_file |-> TRUE, suffix |-> "jpg", decodes |-> TRUE, image |-> Logo],
     [is_file |-> TRUE, suffix |-> "png", decodes |-> FALSE, image |-> NoWatermark]}

PathScenarios ==
    {Scenario(in, out, wm, DEFAULT_SETTINGS, 1, fnd, {}, 0, FALSE) :
        in \in InputDirs, out \in OutputDirs, wm \in WatermarkFiles,
        fnd \in {AllFiles, <<>>}}

\* the numeric fields of the window: an Entry takes any integer
NumericSettings ==
    {[DEFAULT_SETTINGS EXCEPT !.opacity = v] : v \in {-10, 0, 50, 100, 150}}
        \cup {[DEFAULT_SETTINGS EXCEPT !.margin = v] : v \in {-5, 0}}
        \cup {[DEFAULT_SETTINGS EXCEPT !.scale = v] : v \in {0, 1, 19, 100, 150}}
        \cup {[DEFAULT_SETTINGS EXCEPT !.max_size = v] : v \in {-5, 0, 100, 500}}

NumericScenarios ==
    {Scenario(PhotosDir, OutDir, GoodWatermark(image),
              [s EXCEPT !.auto_scale = a], 1, AllFiles, {}, 0, FALSE) :
        s \in NumericSettings, a \in BOOLEAN, image \in {Logo, SmallLogo}}

\* the formats, the conflict mode and one file already in the output directory
ExistingCases ==
    {{}} \cup {{PlusExt(OutputPath(1), ext)} : ext \in {"jpg", "jpeg", "png", "webp"}}

FormatScenarios ==
    {Scenario(PhotosDir, IF ex = {} THEN OutDir ELSE OutDirPresent,
              GoodWatermark(Logo),
              [DEFAULT_SETTINGS EXCEPT !.format = m, !.extra_format = x,
                                       !.overwrite_mode = o],
              1, AllFiles, ex, 0, FALSE) :
        m \in {"Same as source", "JPG", "PNG", "WEBP"},
        x \in {"None", "JPG", "PNG", "WEBP"},
        o \in {"ask", "overwrite", "skip"},
        ex \in ExistingCases}

Scenarios ==
    SchedScenarios \cup ProgressScenarios \cup PathScenarios
        \cup NumericScenarios \cup FormatScenarios

SizingIdle == [step |-> "off"]

CallIdle == [fn |-> "none", step |-> "off"]

InitRun(sc) ==
    /\ input_dir = sc.input_dir
    /\ output_dir = sc.output_dir
    /\ watermark_file = sc.watermark_file
    /\ settings = sc.settings
    /\ cpu_count = sc.cpu_count
    /\ found = sc.found
    /\ existing = sc.existing
    /\ may_raise = sc.may_raise
    /\ may_cancel = sc.may_cancel
    /\ ui_lag = sc.ui_lag
    /\ pc = "idle"
    /\ message = ""
    /\ stop_event = FALSE
    /\ start_button = "normal"
    /\ cancel_button = "disabled"
    /\ files = <<>>
    /\ watermark = NoWatermark
    /\ next_submit = 1
    /\ task = [f \in Files |->
                  [st |-> "none", watermarked |-> NoImage, wrote |-> <<>>]]
    /\ future = [f \in Files |-> Pending]
    /\ yielded = {}
    /\ results = <<>>
    /\ processed_count = 0
    /\ out_dir_made = FALSE
    /\ out_files = {[name |-> n, by |-> 0] : n \in sc.existing}
    /\ csv_log = <<Pending>>
    /\ zip_members = {}
    /\ wm_loaded = NoWatermark
    /\ at_cancel = {}
    /\ faults = 0
    /\ after_queue = 0
    /\ delivered = <<>>

Init ==
    /\ \E sc \in Scenarios : InitRun(sc)
    /\ sizing = SizingIdle
    /\ call = CallIdle


(***************************************************************************)
(* WatermarkGenieGUI.start_processing (the Start button).                  *)
(***************************************************************************)
StartProcessing ==
    /\ pc = "idle"
    /\ start_button = "normal"
    /\ LET error_msg == validate_paths(input_dir, output_dir, watermark_file)
       IN  IF error_msg # "ok"
           THEN /\ pc' = "rejected"
                /\ message' = error_msg
                /\ UNCHANGED <<stop_event, start_button, cancel_button, files,
                               out_dir_made>>
           ELSE IF found = <<>>
           THEN /\ pc' = "rejected"
                /\ message' = "No supported image files found in input directory."
                /\ UNCHANGED <<stop_event, start_button, cancel_button, files,
                               out_dir_made>>
           ELSE IF Len(found) > MAX_BATCH_SIZE
           THEN /\ pc' = "rejected"
                /\ message' = "Batch Too Large"
                /\ UNCHANGED <<stop_event, start_button, cancel_button, files,
                               out_dir_made>>
           ELSE \E confirmed \in BOOLEAN :
                    IF ~confirmed
                    THEN /\ pc' = "declined"
                         /\ UNCHANGED <<message, stop_event, start_button,
                                        cancel_button, files, out_dir_made>>
                    ELSE /\ out_dir_made' = TRUE
                         /\ stop_event' = FALSE
                         /\ start_button' = "disabled"
                         /\ cancel_button' = "normal"
                         /\ files' = found
                         /\ pc' = "load"
                         /\ UNCHANGED message
    /\ UNCHANGED <<env_vars, watermark, next_submit, task, future, yielded,
                   results, processed_count, out_files, csv_log, zip_members,
                   wm_loaded, at_cancel, faults, sizing, call, ui_vars>>

(***************************************************************************)
(* WatermarkGenieGUI.cancel_processing (the Cancel button).                *)
(***************************************************************************)
CancelProcessing ==
    /\ cancel_button = "normal"
    /\ may_cancel
    /\ stop_event' = TRUE
    /\ at_cancel' = IF stop_event THEN at_cancel
                    ELSE {f \in Files : task[f].st \in {"queued", "running"}}
    /\ UNCHANGED <<env_vars, pc, message, start_button, cancel_button, files,
                   watermark, next_submit, task, future, yielded, results,
                   processed_count, out_dir_made, out_files, csv_log,
                   zip_members, wm_loaded, faults, sizing, call, ui_vars>>

(***************************************************************************)
(* _process_images, the processing thread.                                 *)
(***************************************************************************)
\* watermark = Image.open(watermark_file).convert('RGBA'); the settings
LoadWatermark ==
    /\ pc = "load"
    /\ IF watermark_file.decodes
       THEN /\ watermark' = watermark_file.image
            /\ wm_loaded' = watermark_file.image
            /\ pc' = "submit"
            /\ UNCHANGED message
       ELSE /\ pc' = "finally"
            /\ message' = "Processing error"
            /\ UNCHANGED <<watermark, wm_loaded>>
    /\ UNCHANGED <<env_vars, stop_event, start_button, cancel_button, files,
                   next_submit, task, future, yielded, results, processed_count,
                   out_dir_made, out_files, csv_log, zip_members, at_cancel,
                   faults, sizing, call, ui_vars>>

\* one executor.submit(process_single_file, file) of the dict comprehension
Submit ==
    /\ pc = "submit"
    /\ task' = [task EXCEPT ![files[next_submit]].st = "queued"]
    /\ next_submit' = next_submit + 1
    /\ pc' = IF next_submit = Len(files) THEN "collect" ELSE "submit"
    /\ UNCHANGED <<env_vars, message, stop_event, start_button, cancel_button,
                   files, watermark, future, yielded, results, processed_count,
                   out_dir_made, out_files, csv_log, zip_members, wm_loaded,
                   at_cancel, faults, sizing, call, ui_vars>>

\* results.append(result), with only the SUCCESS results kept
AppendResult_SuccessOnly(rs, result) ==
    IF result.status = "ERROR" THEN rs ELSE Append(rs, result)

\* results.append(result), done twice
AppendResult_Twice(rs, result) == Append(Append(rs, result), result)

\* results.append(result)
AppendResult(rs, result) == Append(rs, result)

\* one turn of the loop over cf.as_completed(future_to_file).  The two
\* root.after(0, lambda: ...) calls queue callbacks that read processed_count
\* when the main loop runs them; a main loop that is not late (ui_lag false)
\* runs them before the thread goes on.
Collect(f) ==
    /\ pc = "collect"
    /\ task[f].st = "done"
    /\ f \notin yielded
    /\ yielded' = yielded \cup {f}
    /\ IF stop_event
       THEN /\ pc' = "join"
            /\ UNCHANGED <<results, processed_count, after_queue, delivered>>
       ELSE /\ results' = AppendResult(results, future[f])
            /\ processed_count' = processed_count + 1
            /\ IF ui_lag
               THEN /\ after_queue' = after_queue + 1
                    /\ UNCHANGED delivered
               ELSE /\ delivered' = Append(delivered, processed_count')
                    /\ UNCHANGED after_queue
            /\ pc' = IF yielded' = Range(files) THEN "join" ELSE "collect"
    /\ UNCHANGED <<env_vars, message, stop_event, start_button, cancel_button,
                   files, watermark, next_submit, task, future, out_dir_made,
                   out_files, csv_log, zip_members, wm_loaded, at_cancel,
                   faults, sizing, call>>

\* the main loop runs the oldest queued progress callback:
\* progress_bar.configure(value=processed_count), processed_count read now
TkRun ==
    /\ after_queue > 0
    /\ after_queue' = after_queue - 1
    /\ delivered' = Append(delivered, processed_count)
    /\ UNCHANGED <<env_vars, pc, message, stop_event, start_button,
                   cancel_button, files, watermark, next_submit, task, future,
                   yielded, results, processed_count, out_dir_made, out_files,
                   csv_log, zip_members, wm_loaded, at_cancel, faults, sizing,
                   call>>

\* leaving the with block without waiting for the tasks: shutdown(wait=False)
Join_NoWait ==
    /\ pc = "join"
    /\ pc' = "log"
    /\ UNCHANGED <<env_vars, message, stop_event, start_button, cancel_button,
                   files, watermark, next_submit, task, future, yielded, results,
                   processed_count, out_dir_made, out_files, csv_log,
                   zip_members, wm_loaded, at_cancel, faults, sizing, call,
                   ui_vars>>

\* leaving the with block: executor.shutdown(wait=True)
Join ==
    /\ pc = "join"
    /\ \A f \in Range(files) : task[f].st = "done"
    /\ pc' = "log"
    /\ UNCHANGED <<env_vars, message, stop_event, start_button, cancel_button,
                   files, watermark, next_submit, task, future, yielded, results,
                   processed_count, out_dir_made, out_files, csv_log,
                   zip_members, wm_loaded, at_cancel, faults, sizing, call, ui_vars>>

\* FileManager.create_csv_log, when its condition holds
WriteLog ==
    /\ pc = "log"
    /\ IF ~settings.dry_run /\ results # <<>>
       THEN /\ csv_log' = results
            /\ out_files' = WriteAll(out_files, <<LogName>>, 0)
       ELSE UNCHANGED <<csv_log, out_files>>
    /\ pc' = "zip"
    /\ UNCHANGED <<env_vars, message, stop_event, start_button, cancel_button,
                   files, watermark, next_submit, task, future, yielded, results,
                   processed_count, out_dir_made, zip_members, wm_loaded,
                   at_cancel, faults, sizing, call, ui_vars>>

\* FileManager.create_zip_archive, when its condition holds: the archive is
\* opened in the directory it then walks
CreateZip ==
    /\ pc = "zip"
    /\ IF settings.create_zip /\ ~settings.dry_run /\ results # <<>>
       THEN /\ out_files' = WriteAll(out_files, <<ZipName>>, 0)
            /\ zip_members' = {e.name : e \in out_files'}
       ELSE UNCHANGED <<out_files, zip_members>>
    /\ pc' = "finally"
    /\ UNCHANGED <<env_vars, message, stop_event, start_button, cancel_button,
                   files, watermark, next_submit, task, future, yielded, results,
                   processed_count, out_dir_made, csv_log, wm_loaded, at_cancel,
                   faults, sizing, call, ui_vars>>

\* the finally block without the reset of the buttons
Finally_NoReset ==
    /\ pc = "finally"
    /\ pc' = "done"
    /\ UNCHANGED <<env_vars, message, stop_event, start_button, cancel_button,
                   files, watermark, next_submit, task, future, yielded, results,
                   processed_count, out_dir_made, out_files, csv_log,
                   zip_members, wm_loaded, at_cancel, faults, sizing, call,
                   ui_vars>>

\* the finally block: the buttons are reset
Finally ==
    /\ pc = "finally"
    /\ start_button' = "normal"
    /\ cancel_button' = "disabled"
    /\ pc' = "done"
    /\ UNCHANGED <<env_vars, message, stop_event, files, watermark, next_submit,
                   task, future, yielded, results, processed_count, out_dir_made,
                   out_files, csv_log, zip_members, wm_loaded, at_cancel, faults, sizing, call, ui_vars>>


(***************************************************************************)
(* The worker pool running process_single_file.                            *)
(***************************************************************************)
Running == {f \in Files : task[f].st = "running"}

Queued == {i \in 1 .. Len(files) : task[files[i]].st = "queued"}

\* a worker is free and f is the work item at the head of the pool's queue
CanStart(f) ==
    /\ Cardinality(Running) < max_workers
    /\ \E i \in Queued : files[i] = f /\ \A j \in Queued : i <= j

\* the image after "Resize if needed"
Prepared(f) ==
    IF FileSize(f)[1] > settings.max_size \/ FileSize(f)[2] > settings.max_size
    THEN resize_maintain_aspect(FileSize(f), settings.max_size)
    ELSE FileSize(f)

\* Image.resize refuses the size computed for the file
PrepareRaises(f) ==
    /\ FileSize(f)[1] > settings.max_size \/ FileSize(f)[2] > settings.max_size
    /\ ResizeRaises(FileSize(f), settings.max_size)

\* the call of apply_watermark in process_single_file
Composite(f) ==
    apply_watermark(Prepared(f), watermark, settings.anchor, settings.opacity,
                    settings.margin,
                    BatchTargetWidth(Prepared(f)[1], Prepared(f)[2],
                                     settings.scale, settings.auto_scale))

\* a worker takes the file: decode, resize, target width, composite
TaskStart(f) ==
    /\ CanStart(f)
    /\ IF PrepareRaises(f)
       THEN /\ task' = [task EXCEPT ![f].st = "done"]
            /\ future' = [future EXCEPT
                            ![f] = ErrorResult(f, "height and width must be > 0")]
            /\ UNCHANGED watermark
       ELSE /\ task' = [task EXCEPT
                          ![f] = [st |-> "running",
                                  watermarked |->
                                      [size |-> Prepared(f),
                                       pasted |-> Composite(f).pasted,
                                       at |-> Composite(f).at],
                                  wrote |-> <<>>]]
            /\ watermark' = Composite(f).shared
            /\ UNCHANGED future
    /\ UNCHANGED <<env_vars, pc, message, stop_event, start_button,
                   cancel_button, files, next_submit, yielded, results,
                   processed_count, out_dir_made, out_files, csv_log,
                   zip_members, wm_loaded, at_cancel, faults, sizing, call, ui_vars>>

\* a step of the task raises: the except branch builds the ERROR result
TaskRaise(f) ==
    /\ faults < may_raise
    /\ task[f].st \in {"queued", "running"}
    /\ task[f].st = "queued" => CanStart(f)
    /\ \E step \in (IF task[f].st = "queued" THEN EarlySteps ELSE LateSteps),
          error_msg \in ErrMsgs :
           future' = [future EXCEPT ![f] = ErrorResult(f, error_msg)]
    /\ task' = [task EXCEPT ![f].st = "done"]
    /\ faults' = faults + 1
    /\ UNCHANGED <<env_vars, pc, message, stop_event, start_button,
                   cancel_button, files, watermark, next_submit, yielded,
                   results, processed_count, out_dir_made, out_files, csv_log,
                   zip_members, wm_loaded, at_cancel, sizing, call, ui_vars>>

\* the rest of the task: conflict check, the saves, the SUCCESS result
TaskFinish(f) ==
    /\ task[f].st = "running"
    /\ LET present == {e.name : e \in out_files}
       IN  IF settings.dry_run
           THEN /\ future' = [future EXCEPT ![f] = SuccessResult(f, <<DryRunLabel>>)]
                /\ task' = [task EXCEPT ![f].st = "done"]
                /\ UNCHANGED out_files
           ELSE IF ShouldProcess(present, f, settings)
           THEN /\ out_files' = WriteAll(out_files, WrittenNames(f, settings), f)
                /\ task' = [task EXCEPT ![f].st = "done",
                                        ![f].wrote = WrittenNames(f, settings)]
                /\ future' = [future EXCEPT
                                ![f] = SuccessResult(f, SavedFiles(f, settings))]
           ELSE /\ future' = [future EXCEPT ![f] = SuccessResult(f, <<SkippedLabel>>)]
                /\ task' = [task EXCEPT ![f].st = "done"]
                /\ UNCHANGED out_files
    /\ UNCHANGED <<env_vars, pc, message, stop_event, start_button,
                   cancel_button, files, watermark, next_submit, yielded,
                   results, processed_count, out_dir_made, csv_log, zip_members,
                   wm_loaded, at_cancel, faults, sizing, call, ui_vars>>

(***************************************************************************)
(* WatermarkGenieCLI.run: the same pipeline, one file after the other.     *)
(* next_submit is the loop index; a refused run (sys.exit(1)) is           *)
(* "rejected".                                                             *)
(***************************************************************************)
\* the call of apply_watermark in WatermarkGenieCLI.run
CliComposite(f) ==
    apply_watermark(Prepared(f), watermark, settings.anchor, settings.opacity,
                    settings.margin,
                    CliTargetWidth(Prepared(f)[1], Prepared(f)[2],
                                   settings.scale, settings.auto_scale))

\* the SUCCESS result of the CLI: output_file is str(output_path)
CliSuccessResult(f) ==
    SuccessResult(f, IF settings.dry_run THEN <<DryRunLabel>> ELSE <<OutputPath(f)>>)

\* run() up to the loop: validation, discovery, mkdir, the watermark
CliStart ==
    /\ pc = "idle"
    /\ start_button = "normal"
    /\ LET error_msg == validate_paths(input_dir, output_dir, watermark_file)
       IN  IF error_msg # "ok"
           THEN /\ pc' = "rejected"
                /\ message' = error_msg
                /\ UNCHANGED <<files, out_dir_made, watermark, wm_loaded>>
           ELSE IF found = <<>>
           THEN /\ pc' = "rejected"
                /\ message' = "No supported image files found."
                /\ UNCHANGED <<files, out_dir_made, watermark, wm_loaded>>
           ELSE IF ~watermark_file.decodes
           THEN /\ pc' = "cli_crash"
                /\ out_dir_made' = TRUE
                /\ UNCHANGED <<message, files, watermark, wm_loaded>>
           ELSE /\ pc' = "cli_loop"
                /\ out_dir_made' = TRUE
                /\ files' = found
                /\ watermark' = watermark_file.image
                /\ wm_loaded' = watermark_file.image
                /\ UNCHANGED message
    /\ UNCHANGED <<env_vars, stop_event, start_button, cancel_button,
                   next_submit, task, future, yielded, results,
                   processed_count, out_files, csv_log, zip_members, at_cancel,
                   faults, sizing, call, ui_vars>>

\* one turn of the loop over the files
CliProcessFile ==
    /\ pc = "cli_loop"
    /\ LET f == files[next_submit]
       IN  \E raises \in (IF faults < may_raise THEN BOOLEAN ELSE {FALSE}),
              error_msg \in ErrMsgs :
               IF PrepareRaises(f)
               THEN /\ results' = Append(results,
                                     ErrorResult(f, "height and width must be > 0"))
                    /\ task' = [task EXCEPT ![f].st = "done"]
                    /\ UNCHANGED <<watermark, out_files, faults>>
               ELSE IF raises
               THEN /\ results' = Append(results, ErrorResult(f, error_msg))
                    /\ task' = [task EXCEPT ![f].st = "done"]
                    /\ faults' = faults + 1
                    /\ UNCHANGED <<watermark, out_files>>
               ELSE /\ watermark' = CliComposite(f).shared
                    /\ task' = [task EXCEPT
                                  ![f] = [st |-> "done",
                                          watermarked |->
                                              [size |-> Prepared(f),
                                               pasted |-> CliComposite(f).pasted,
                                               at |-> CliComposite(f).at],
                                          wrote |-> IF settings.dry_run THEN <<>>
                                                    ELSE WrittenNames(f, settings)]]
                    /\ out_files' = IF settings.dry_run THEN out_files
                                    ELSE WriteAll(out_files,
                                                  WrittenNames(f, settings), f)
                    /\ results' = Append(results, CliSuccessResult(f))
                    /\ UNCHANGED faults
    /\ next_submit' = next_submit + 1
    /\ pc' = IF next_submit = Len(files) THEN "cli_log" ELSE "cli_loop"
    /\ UNCHANGED <<env_vars, message, stop_event, start_button, cancel_button,
                   files, future, yielded, processed_count, out_dir_made,
                   csv_log, zip_members, wm_loaded, at_cancel, sizing, call,
                   ui_vars>>

\* FileManager.create_csv_log, when run()'s condition holds
CliWriteLog ==
    /\ pc = "cli_log"
    /\ IF ~settings.dry_run /\ results # <<>>
       THEN /\ csv_log' = results
            /\ out_files' = WriteAll(out_files, <<LogName>>, 0)
       ELSE UNCHANGED <<csv_log, out_files>>
    /\ pc' = "cli_zip"
    /\ UNCHANGED <<env_vars, message, stop_event, start_button, cancel_button,
                   files, watermark, next_submit, task, future, yielded, results,
                   processed_count, out_dir_made, zip_members, wm_loaded,
                   at_cancel, faults, sizing, call, ui_vars>>

\* FileManager.create_zip_archive, when run()'s condition holds
CliCreateZip ==
    /\ pc = "cli_zip"
    /\ IF settings.create_zip /\ ~settings.dry_run /\ results # <<>>
       THEN /\ out_files' = WriteAll(out_files, <<ZipName>>, 0)
            /\ zip_members' = {e.name : e \in out_files'}
       ELSE UNCHANGED <<out_files, zip_members>>
    /\ pc' = "cli_done"
    /\ UNCHANGED <<env_vars, message, stop_event, start_button, cancel_button,
                   files, watermark, next_submit, task, future, yielded, results,
                   processed_count, out_dir_made, csv_log, wm_loaded, at_cancel,
                   faults, sizing, call, ui_vars>>

Next ==
    \/ StartProcessing
    \/ CancelProcessing
    \/ LoadWatermark
    \/ Submit
    \/ \E f \in Files : TaskStart(f)
    \/ \E f \in Files : TaskRaise(f)
    \/ \E f \in Files : TaskFinish(f)
    \/ \E f \in Files : Collect(f)
    \/ TkRun
    \/ Join
    \/ WriteLog
    \/ CreateZip
    \/ Finally
    \/ CliStart
    \/ CliProcessFile
    \/ CliWriteLog
    \/ CliCreateZip

Spec == Init /\ [][Next]_vars

(***************************************************************************)
(* The batch run under the scheduling the threads get: the processing      *)
(* thread, once started, keeps being scheduled, and so does every worker   *)
(* with a task to take or to finish (each task terminates, by returning or *)
(* by raising).  The user and the main loop are promised nothing.          *)
(***************************************************************************)
\* a step of the processing thread running _process_images
ThreadStep ==
    \/ LoadWatermark
    \/ Submit
    \/ \E f \in Files : Collect(f)
    \/ Join
    \/ WriteLog
    \/ CreateZip
    \/ Finally

\* a step of the worker running process_single_file on f
TaskStep(f) == TaskStart(f) \/ TaskRaise(f) \/ TaskFinish(f)

Fairness == WF_vars(ThreadStep) /\ \A f \in Files : WF_vars(TaskStep(f))

\* a watermark file that passes validation and that Image.open refuses
UndecodableWatermark ==
    [is_file |-> TRUE, suffix |-> "png", decodes |-> FALSE, image |-> NoWatermark]

\* the runs whose termination is checked: a Cancel at any moment with one
\* worker and with MaxCpu, tasks that raise with and without a Cancel, the
\* archive, a main loop that is late, and a watermark that does not load
LiveScenarios ==
    {Scenario(PhotosDir, OutDir, GoodWatermark(Logo), DEFAULT_SETTINGS,
              cpu, AllFiles, {}, 0, TRUE) : cpu \in {1, MaxCpu}}
        \cup {Scenario(PhotosDir, OutDir, GoodWatermark(Logo), DEFAULT_SETTINGS,
                       1, AllFiles, {}, MaxFaults, TRUE),
              Scenario(PhotosDir, OutDir, GoodWatermark(Logo), DEFAULT_SETTINGS,
                       MaxCpu, AllFiles, {}, MaxFaults, FALSE),
              Scenario(PhotosDir, OutDir, GoodWatermark(Logo),
                       [DEFAULT_SETTINGS EXCEPT !.create_zip = TRUE],
                       MaxCpu, AllFiles, {}, 0, TRUE),
              Lagging(Scenario(PhotosDir, OutDir, GoodWatermark(Logo),
                               DEFAULT_SETTINGS, MaxCpu, AllFiles, {}, 0, FALSE)),
              Scenario(PhotosDir, OutDir, UndecodableWatermark, DEFAULT_SETTINGS,
                       1, AllFiles, {}, 0, TRUE)}

InitLive ==
    /\ \E sc \in LiveScenarios : InitRun(sc)
    /\ sizing = SizingIdle
    /\ call = CallIdle

\* the window and the threads of a batch run
NextLive ==
    \/ StartProcessing
    \/ CancelProcessing
    \/ ThreadStep
    \/ \E f \in Files : TaskStep(f)
    \/ TkRun

SpecLive == InitLive /\ [][NextLive]_vars /\ Fairness


(***************************************************************************)
(* The sizing heuristic on its own: a base image size and the two sizing   *)
(* settings are drawn, and each call site computes its target width.       *)
(***************************************************************************)
Sides == 1 .. MaxSide

\* the scale percentages 1..100 taken: every ScaleStep-th, and both ends
Scales == {s \in 1 .. 100 : s % ScaleStep = 0} \cup {1, 100}

InitWidth ==
    /\ InitRun(Scenario(PhotosDir, OutDir, GoodWatermark(Logo), DEFAULT_SETTINGS,
                         1, AllFiles, {}, 0, FALSE))
    /\ call = CallIdle
    /\ \E w \in Sides, h \in Sides, s \in Scales, a \in BOOLEAN :
           sizing = [step |-> "drawn", base_width |-> w, base_height |-> h,
                     scale |-> s, auto_scale |-> a,
                     preview |-> 0, batch |-> 0, cli |-> 0]

\* _update_single_preview computes target_width
SizePreview ==
    /\ sizing.step = "drawn"
    /\ sizing' = [sizing EXCEPT
                    !.step = "preview",
                    !.preview = PreviewTargetWidth(sizing.base_width,
                                    sizing.base_height, sizing.scale,
                                    sizing.auto_scale)]
    /\ UNCHANGED <<run_vars, call>>

\* process_single_file computes target_width
SizeBatch ==
    /\ sizing.step = "preview"
    /\ sizing' = [sizing EXCEPT
                    !.step = "batch",
                    !.batch = BatchTargetWidth(sizing.base_width,
                                  sizing.base_height, sizing.scale,
                                  sizing.auto_scale)]
    /\ UNCHANGED <<run_vars, call>>

\* WatermarkGenieCLI.run computes target_width
SizeCli ==
    /\ sizing.step = "batch"
    /\ sizing' = [sizing EXCEPT
                    !.step = "cli",
                    !.cli = CliTargetWidth(sizing.base_width,
                                sizing.base_height, sizing.scale,
                                sizing.auto_scale)]
    /\ UNCHANGED <<run_vars, call>>

NextWidth == SizePreview \/ SizeBatch \/ SizeCli

SpecWidth == InitWidth /\ [][NextWidth]_vars


(***************************************************************************)
(* Discovery on its own: a directory and the arguments are drawn, and      *)
(* find_supported_images is called.                                        *)
(***************************************************************************)
\* what an entry can be: an image that opens (its suffix in upper case), a
\* file with a supported suffix that does not, a known unsupported file, a
\* subdirectory
EntryKinds ==
    {[is_file |-> TRUE, suffix |-> "JPG", opens |-> TRUE],
     [is_file |-> TRUE, suffix |-> "png", opens |-> FALSE],
     [is_file |-> TRUE, suffix |-> "gif", opens |-> FALSE],
     [is_file |-> FALSE, suffix |-> "", opens |-> FALSE]}

Entries ==
    {[depth |-> d, is_file |-> k.is_file, suffix |-> k.suffix, opens |-> k.opens] :
        d \in 0 .. MaxTreeDepth, k \in EntryKinds}

Listings == UNION {[1 .. n -> Entries] : n \in 0 .. MaxEntries}

InitFind ==
    /\ InitRun(Scenario(PhotosDir, OutDir, GoodWatermark(Logo), DEFAULT_SETTINGS,
                         1, AllFiles, {}, 0, FALSE))
    /\ sizing = SizingIdle
    /\ \E listing \in Listings, max_depth \in 0 .. (MaxTreeDepth + 1),
          include_subfolders \in BOOLEAN :
          \E is_dir \in (IF listing = <<>> THEN BOOLEAN ELSE {TRUE}) :
              call = [fn |-> "find", step |-> "drawn", is_dir |-> is_dir,
                      listing |-> listing, max_depth |-> max_depth,
                      include_subfolders |-> include_subfolders,
                      images |-> <<>>, ignored |-> 0]

\* images, ignored = find_supported_images(directory, max_depth, include_subfolders)
FindCall ==
    /\ call.fn = "find"
    /\ call.step = "drawn"
    /\ LET returned == find_supported_images(call.is_dir, call.listing,
                            call.max_depth, call.include_subfolders)
       IN  call' = [call EXCEPT !.step = "returned",
                                !.images = returned.images,
                                !.ignored = returned.ignored]
    /\ UNCHANGED <<run_vars, sizing>>

NextFind == FindCall

SpecFind == InitFind /\ [][NextFind]_vars

(***************************************************************************)
(* The resize on its own: an image size and max_dimension are drawn, and   *)
(* resize_maintain_aspect is called.                                       *)
(***************************************************************************)
InitResize ==
    /\ InitRun(Scenario(PhotosDir, OutDir, GoodWatermark(Logo), DEFAULT_SETTINGS,
                         1, AllFiles, {}, 0, FALSE))
    /\ sizing = SizingIdle
    /\ \E w \in Sides, h \in Sides, m \in 1 .. MaxTarget :
           call = [fn |-> "resize", step |-> "drawn", width |-> w, height |-> h,
                   max_dimension |-> m, raised |-> FALSE, size |-> <<0, 0>>]

\* image = resize_maintain_aspect(image, max_dimension)
ResizeCall ==
    /\ call.fn = "resize"
    /\ call.step = "drawn"
    /\ IF ResizeRaises(<<call.width, call.height>>, call.max_dimension)
       THEN call' = [call EXCEPT !.step = "returned", !.raised = TRUE]
       ELSE call' = [call EXCEPT
                       !.step = "returned",
                       !.size = resize_maintain_aspect(<<call.width, call.height>>,
                                                       call.max_dimension)]
    /\ UNCHANGED <<run_vars, sizing>>

NextResize == ResizeCall

SpecResize == InitResize /\ [][NextResize]_vars


(***************************************************************************)
(* The compositor on its own: a watermark, a base size and the placement   *)
(* arguments are drawn, and apply_watermark is called.                     *)
(***************************************************************************)
\* the values of ANCHOR_POSITIONS, letter by letter
ANCHOR_POSITIONS ==
    {<<v, h>> : v \in {"T", "C", "B"}, h \in {"L", "C", "R"}}

\* the target widths taken: one below the floor of 30, and 29..MaxSide
Targets == {1} \cup (29 .. MaxSide)

\* watermarks of every width up to MaxSide: one pixel high, 12 high, square
Watermarks ==
    {[width |-> w, height |-> h, alpha |-> 255] :
        w \in Sides, h \in {1, 12}} \cup
    {[width |-> w, height |-> w, alpha |-> 255] : w \in Sides}

\* a base image larger than every watermark, and one smaller than some
BaseSizes == {<<100, 81>>, <<41, 30>>}

InitPaste ==
    /\ InitRun(Scenario(PhotosDir, OutDir, GoodWatermark(Logo), DEFAULT_SETTINGS,
                         1, AllFiles, {}, 0, FALSE))
    /\ sizing = SizingIdle
    /\ \E wm \in Watermarks, t \in Targets, position \in ANCHOR_POSITIONS,
          margin \in {0, 25}, base_size \in BaseSizes :
           call = [fn |-> "paste", step |-> "drawn", watermark |-> wm,
                   target_width |-> t, position |-> position, margin |-> margin,
                   opacity |-> DEFAULT_SETTINGS.opacity, base_size |-> base_size,
                   raised |-> FALSE, pasted |-> NoWatermark, at |-> <<0, 0>>]

\* watermarked = apply_watermark(base_image, watermark, position, opacity,
\*                               margin, target_width)
PasteCall ==
    /\ call.fn = "paste"
    /\ call.step = "drawn"
    /\ IF WatermarkResizeRaises(call.watermark, call.target_width)
       THEN call' = [call EXCEPT !.step = "returned", !.raised = TRUE]
       ELSE LET applied == apply_watermark(call.base_size, call.watermark,
                               call.position, call.opacity, call.margin,
                               call.target_width)
            IN  call' = [call EXCEPT !.step = "returned",
                                     !.pasted = applied.pasted,
                                     !.at = applied.at]
    /\ UNCHANGED <<run_vars, sizing>>

NextPaste == PasteCall

SpecPaste == InitPaste /\ [][NextPaste]_vars


(***************************************************************************)
(* The executor on its own: a machine of call.cpus processors, whose count *)
(* os.cpu_count() reports or cannot determine (None, written 0), and a     *)
(* batch of call.total files.  The tasks are counted: submitted to the     *)
(* executor, waiting in its queue, executing on a worker, finished.        *)
(***************************************************************************)
InitPool ==
    /\ sizing = SizingIdle
    /\ \E cpus \in 1 .. MaxPoolCpu, total \in 0 .. MaxPoolFiles :
         \E reported \in {cpus, 0} :
           /\ InitRun(Scenario(PhotosDir, OutDir, GoodWatermark(Logo),
                               DEFAULT_SETTINGS, reported, AllFiles, {}, 0, FALSE))
           /\ call = [fn |-> "pool", step |-> "submit", cpus |-> cpus,
                      total |-> total, submitted |-> 0, queued |-> 0,
                      running |-> 0, finished |-> 0]

\* executor.submit(process_single_file, file), for the next file
PoolSubmit ==
    /\ call.fn = "pool"
    /\ call.step = "submit"
    /\ IF call.submitted < call.total
       THEN call' = [call EXCEPT !.submitted = @ + 1, !.queued = @ + 1]
       ELSE call' = [call EXCEPT !.step = "collect"]
    /\ UNCHANGED <<run_vars, sizing>>

\* a worker of the executor, of which there are max_workers, takes a task
PoolTake ==
    /\ call.fn = "pool"
    /\ call.queued > 0
    /\ call.running < max_workers
    /\ call' = [call EXCEPT !.queued = @ - 1, !.running = @ + 1]
    /\ UNCHANGED <<run_vars, sizing>>

\* process_single_file returns
PoolDone ==
    /\ call.fn = "pool"
    /\ call.running > 0
    /\ call' = [call EXCEPT !.running = @ - 1, !.finished = @ + 1]
    /\ UNCHANGED <<run_vars, sizing>>

NextPool == PoolSubmit \/ PoolTake \/ PoolDone

SpecPool == InitPool /\ [][NextPool]_vars


(***************************************************************************)
(* Properties of the batch run (checked under Spec).                       *)
(***************************************************************************)
\* the processing thread has left the with block of the executor
PoolClosed == pc \in {"log", "zip", "finally", "done"} /\ next_submit > Len(files)

\* how many collected records name file f
RecordsOf(f) == Cardinality({i \in 1 .. Len(results) : results[i].source_file = f})

\* C1: when cancellation is never requested, the result list of a run over
\* M files ends with exactly M records, exactly one per file, whatever the
\* order in which the tasks complete.
C1_OneRecordPerFile ==
    (PoolClosed /\ ~stop_event) =>
        /\ Len(results) = Len(files)
        /\ \A f \in Range(files) : RecordsOf(f) = 1

\* C1, witnessed: a run that was not cancelled ends with the record of the
\* last submitted file collected first.
C1_Witness ==
    /\ pc = "done"
    /\ ~stop_event
    /\ Len(files) > 1
    /\ Len(results) = Len(files)
    /\ results[1].source_file = files[Len(files)]

\* C2, as claimed: every task that was queued or running when cancellation
\* was requested has run to completion and has its result record among the
\* collected results when the pool is closed (in a run where no step raised).
C2_InFlightResultsCollected ==
    (PoolClosed /\ faults = 0) =>
        \A f \in at_cancel :
            /\ task[f].st = "done"
            /\ \E i \in 1 .. Len(results) : results[i] = future[f]

\* C3, as claimed: the shared watermark keeps the size and the alpha it was
\* decoded with, whatever the tasks do (with every setting in its range).
C3_SharedWatermarkUntouched ==
    (wm_loaded # NoWatermark /\ InRange(settings)) => watermark = wm_loaded

\* C4, as claimed: a file whose processing raised has exactly one result, of
\* status ERROR with a non-empty message, and when the run was not cancelled
\* every file of the batch has exactly one collected record.
C4_ErrorIsolatedWithMessage ==
    /\ \A f \in Files :
           future[f].status = "ERROR" =>
               future[f].source_file = f /\ future[f].error # ""
    /\ (PoolClosed /\ ~stop_event) => \A f \in Range(files) : RecordsOf(f) = 1

\* C5, as claimed: once cancellation is requested no task is handed to the
\* worker pool any more.
C5_NoDispatchAfterCancel ==
    [][stop_event =>
          \A f \in Files : task[f].st = "none" => task'[f].st = "none"]_vars

\* C6, as claimed: in a non-dry run with conflict mode skip, a task one of
\* whose output files was in the output directory before the run writes
\* nothing: the files present before the run are as they were, and the
\* task's result carries the skip placeholder.
C6_SkipKeepsExisting ==
    (settings.overwrite_mode = "skip" /\ ~settings.dry_run) =>
        \A f \in Files :
            (/\ future[f].status = "SUCCESS"
             /\ Range(WrittenNames(f, settings)) \cap existing # {}) =>
                /\ future[f].output_file = <<SkippedLabel>>
                /\ \A n \in existing : [name |-> n, by |-> 0] \in out_files

\* C9, as claimed (and allowing the user to decline the confirmation): with
\* the output directory equal to or below the input directory the run never
\* gets past validation, and no directory is made and nothing is written.
C9_OutputInsideInputRejected ==
    IsInside(output_dir.path, input_dir.path) =>
        /\ pc \in {"idle", "rejected", "declined"}
        /\ ~out_dir_made
        /\ \A f \in Files : task[f].st = "none"

\* C10, as claimed: with a numeric setting out of range the run is rejected
\* before any file is processed: no task is ever handed the settings.
C10_OutOfRangeRejected ==
    ~InRange(settings) =>
        /\ pc \in {"idle", "rejected", "declined"}
        /\ \A f \in Files : task[f].st = "none"

\* output_dir.mkdir(parents=True, exist_ok=True) made a directory
OutDirCreated == out_dir_made /\ ~output_dir.exists

\* the output directory holds what it held before the run
OutFilesAsBefore == out_files = {[name |-> n, by |-> 0] : n \in existing}

\* C11, as claimed: in a dry run, GUI or CLI, no directory is made, no image
\* file, log or archive is written, and a run that was not cancelled ends
\* with one result record per file.
C11_DryRunWritesNothing ==
    settings.dry_run =>
        /\ ~OutDirCreated
        /\ OutFilesAsBefore
        /\ csv_log = <<Pending>>
        /\ zip_members = {}
        /\ (pc \in {"done", "cli_done"} /\ ~stop_event /\ files # <<>>) =>
               Len(results) = Len(files)

CliPcs == {"cli_loop", "cli_log", "cli_zip", "cli_done", "cli_crash"}

\* C13: in every state of a batch run the completed-count is the number of
\* collected results, no file is collected twice, the count is at most the
\* number of files M, a run that was not cancelled has counted all M when the
\* loop ends, and every collected result is the result of a finished task
\* that was dispatched before the cancel flag was first looked at (the flag
\* is looked at only when all M tasks have been dispatched).
C13_CountIsResults ==
    pc \notin CliPcs =>
        /\ processed_count = Len(results)
        /\ processed_count <= Len(files)
        /\ \A f \in Files : RecordsOf(f) <= 1
        /\ \A i \in 1 .. Len(results) :
               /\ results[i].source_file \in Range(files)
               /\ task[results[i].source_file].st = "done"
               /\ results[i] = future[results[i].source_file]
        /\ pc \in {"collect", "join"} => next_submit > Len(files)
        /\ (pc = "join" /\ ~stop_event) => processed_count = Len(files)
        /\ (PoolClosed /\ ~stop_event) => processed_count = Len(files)

\* C13, witnessed: a cancelled run that had counted one completion, while
\* other tasks had finished uncollected
C13_Witness ==
    /\ pc = "log"
    /\ stop_event
    /\ processed_count = 1
    /\ Len(results) = 1
    /\ \E f \in Range(files) : future[f].status # "PENDING" /\ RecordsOf(f) = 0

\* C14, as claimed: without cancellation the i-th value the progress bar
\* receives is i, and when the run is over and the main loop has run every
\* queued callback it has received M values.
C14_ProgressCountsInOrder ==
    (~stop_event /\ pc \notin CliPcs) =>
        /\ \A i \in 1 .. Len(delivered) : delivered[i] = i
        /\ (pc = "done" /\ after_queue = 0 /\ wm_loaded # NoWatermark) =>
               Len(delivered) = Len(files)

\* C15, as claimed: a SUCCESS result of a task that wrote files lists in
\* output_file exactly the files that task's save_image calls wrote, in the
\* batch run (the future's result) and in the CLI (the appended result),
\* with every numeric setting in its range.
C15_OutputFileIsWhatWasWritten ==
    InRange(settings) =>
        /\ \A f \in Files :
               (future[f].status = "SUCCESS" /\ task[f].wrote # <<>>) =>
                   Range(future[f].output_file) = Range(task[f].wrote)
        /\ \A i \in 1 .. Len(results) :
               (/\ results[i].status = "SUCCESS"
                /\ task[results[i].source_file].wrote # <<>>) =>
                   Range(results[i].output_file)
                       = Range(task[results[i].source_file].wrote)

\* the names in the output directory
Present == {e.name : e \in out_files}

\* C16, as claimed: whenever a task of a non-dry batch run reaches the
\* existence check with a file in the output directory that its save_image
\* calls are going to write, _check_file_exists answers true.
C16_CheckSeesFileToBeWritten ==
    (~settings.dry_run /\ InRange(settings)) =>
        \A f \in Files :
            (/\ task[f].st = "running"
             /\ Range(WrittenNames(f, settings)) \cap Present # {}) =>
                check_file_exists(Present, OutputPath(f), MainFormat(settings),
                                  ExtraFormat(settings))

\* C17, as claimed: a task encodes its composite at most twice, and never
\* writes the same output file twice: the extra format is encoded only when
\* it differs from the format the primary output was written in.
C17_NoFileEncodedTwice ==
    InRange(settings) =>
        \A f \in Files :
            /\ Len(task[f].wrote) <= 2
            /\ Len(task[f].wrote) = 2 => task[f].wrote[1] # task[f].wrote[2]

\* C25, as claimed: no two tasks of a batch run write the same output file
\* (with every numeric setting in its range).
C25_WrittenPathsDisjoint ==
    (pc \notin CliPcs /\ InRange(settings)) =>
        \A f, g \in Files :
            f # g => Range(task[f].wrote) \cap Range(task[g].wrote) = {}

\* C26, as claimed: the watermark composited onto a file is the one
\* apply_watermark makes of the watermark as it was decoded, whichever tasks
\* ran before (with every numeric setting in its range).
C26_CompositeOfDecodedWatermark ==
    InRange(settings) =>
        \A f \in Files :
            task[f].watermarked # NoImage =>
                task[f].watermarked.pasted
                    = apply_watermark(Prepared(f), wm_loaded, settings.anchor,
                                      settings.opacity, settings.margin,
                                      BatchTargetWidth(Prepared(f)[1], Prepared(f)[2],
                                                       settings.scale,
                                                       settings.auto_scale)).pasted

\* C27, as claimed: when a non-dry batch run has finished, cancelled or not,
\* every file whose task wrote an output image has a row in the CSV log.
C27_WrittenFilesAreLogged ==
    (pc = "done" /\ ~settings.dry_run /\ InRange(settings)) =>
        \A f \in Files :
            task[f].wrote # <<>> =>
                \E i \in 1 .. Len(csv_log) : csv_log[i].source_file = f

\* C28, as claimed: the members of the archive are the files that were in
\* the output directory when archiving began, the log among them, and the
\* archive is not a member of itself.
C28_ArchiveOfDirectoryBefore ==
    zip_members # {} =>
        /\ ZipName \notin zip_members
        /\ zip_members = Present \ {ZipName}

Rounded(how, a, b) ==
    CASE how = "floor" -> a \div b
      [] how = "even" -> RoundHalfEven(a, b)
      [] how = "up" -> RoundHalfUp(a, b)

\* the table of the specification, with Rounded(how, ...) for round(...)
RoundedTable(how, w, h, s, a) ==
    CASE a /\ h > w -> Max(40, Rounded(how, w, 2))
      [] a /\ ~(h > w) -> Max(40, Rounded(how, Min(w, h) * s, 100))
      [] ~a /\ h > w -> Max(40, Rounded(how, 3 * w * s, 200))
      [] ~a /\ ~(h > w) -> Max(40, Rounded(how, w * s, 100))

SizingDone == sizing.step \in {"batch", "cli"}

\* C7, as claimed: the batch target width is the four-branch table with
\* round(), read as Python's round or as rounding halves up.
C7_RoundTable ==
    SizingDone =>
        \/ sizing.batch = RoundedTable("even", sizing.base_width,
                              sizing.base_height, sizing.scale, sizing.auto_scale)
        \/ sizing.batch = RoundedTable("up", sizing.base_width,
                              sizing.base_height, sizing.scale, sizing.auto_scale)

\* C7, amended: the batch target width is the four-branch table with the
\* product truncated to an integer (floor) where the claim says round;
\* portrait iff height > width.
C7_FloorTable ==
    SizingDone =>
        sizing.batch = RoundedTable("floor", sizing.base_width, sizing.base_height,
                                    sizing.scale, sizing.auto_scale)

\* C7, witnessed: a width above the floor of 40 that truncation makes one
\* less than rounding would.
C7_Witness ==
    /\ SizingDone
    /\ sizing.batch > 40
    /\ sizing.batch + 1 = RoundedTable("up", sizing.base_width,
                              sizing.base_height, sizing.scale, sizing.auto_scale)

\* C8: the preview, the GUI batch task and the CLI run compute the same
\* target width for every base size, scale percentage and auto-scale flag.
C8_SameAtEverySite ==
    sizing.step = "cli" =>
        /\ sizing.preview = sizing.batch
        /\ sizing.batch = sizing.cli

\* C8, witnessed: a manual-mode portrait, sized above the floor at all sites
C8_Witness ==
    /\ sizing.step = "cli"
    /\ sizing.base_height > sizing.base_width
    /\ ~sizing.auto_scale
    /\ sizing.cli > 40
    /\ sizing.preview = sizing.cli

\* C22: for every scale percentage in 1..100, every base size and both
\* auto-scale values, the target width computed by the batch task and by
\* the CLI is at least 40.
C22_TargetWidthAtLeast40 ==
    sizing.step = "cli" =>
        /\ sizing.scale \in 1 .. 100
        /\ sizing.batch >= 40
        /\ sizing.cli >= 40

\* C22, witnessed: an auto-scaled portrait whose half width is below 40
C22_Witness ==
    /\ sizing.step = "cli"
    /\ sizing.auto_scale
    /\ sizing.base_height > sizing.base_width
    /\ sizing.base_width \div 2 < 40
    /\ sizing.batch = 40
    /\ sizing.cli = 40

(***************************************************************************)
(* Properties of discovery (checked under SpecFind).                       *)
(***************************************************************************)
FindReturned == call.fn = "find" /\ call.step = "returned"

\* the files the walk is to look at: children of the root, and in recursive
\* mode the files that pass its depth test
Looked(i) ==
    /\ call.listing[i].is_file
    /\ IF call.include_subfolders
       THEN call.listing[i].depth < call.max_depth
       ELSE call.listing[i].depth = 0

\* the N files in scope with a supported extension, and the k that do not open
WithSupportedSuffix ==
    {i \in 1 .. Len(call.listing) :
        /\ Looked(i)
        /\ call.listing[i].suffix \in {"JPG", "png"}}

Undecodable == {i \in WithSupportedSuffix : ~call.listing[i].opens}

\* C18: for a directory within the batch-size cap, discovery returns exactly
\* the N - k files in scope that have a supported extension and open, each
\* once, with an ignored count of at least k: a file that fails to open does
\* not end the walk.  An input that is not a directory gives the empty list
\* and an ignored count of 0.
C18_DiscoveryDropsOnlyUndecodable ==
    FindReturned =>
        IF call.is_dir
        THEN /\ Range(call.images) = WithSupportedSuffix \ Undecodable
             /\ Len(call.images)
                    = Cardinality(WithSupportedSuffix) - Cardinality(Undecodable)
             /\ call.ignored >= Cardinality(Undecodable)
        ELSE call.images = <<>> /\ call.ignored = 0

\* C18, witnessed: a file that does not open, met before two images that do
C18_Witness ==
    /\ FindReturned
    /\ Len(call.images) = 2
    /\ call.ignored = 1
    /\ \E i \in Undecodable : \A j \in Range(call.images) : i < j

\* C19, as claimed: in recursive mode an image d levels below the root is
\* returned exactly when d <= max_depth; in non-recursive mode exactly the
\* images with d = 0 are returned.
C19_DepthLimit ==
    (FindReturned /\ call.is_dir) =>
        \A i \in 1 .. Len(call.listing) :
            (/\ call.listing[i].is_file
             /\ call.listing[i].suffix = "JPG"
             /\ call.listing[i].opens) =>
                (i \in Range(call.images)
                    <=> IF call.include_subfolders
                        THEN call.listing[i].depth <= call.max_depth
                        ELSE call.listing[i].depth = 0)

(***************************************************************************)
(* Properties of the resize (checked under SpecResize).                    *)
(***************************************************************************)
\* C20, as claimed: resize_maintain_aspect returns an image; of the same
\* size when max(width, height) <= max_dimension, and else with the longer
\* side max_dimension and the shorter side floor(max_dimension * shorter /
\* longer); its longer side is never larger than the input's.
C20_ResizeToFit ==
    (call.fn = "resize" /\ call.step = "returned") =>
        LET w == call.width
            h == call.height
            m == call.max_dimension
            longer == Max(w, h)
            shorter == Min(w, h)
        IN  /\ ~call.raised
            /\ IF longer <= m
               THEN call.size = <<w, h>>
               ELSE /\ Max(call.size[1], call.size[2]) = m
                    /\ Min(call.size[1], call.size[2]) = (m * shorter) \div longer
                    /\ (w >= h) <=> (call.size[1] >= call.size[2])
            /\ Max(call.size[1], call.size[2]) <= longer

(***************************************************************************)
(* Properties of the compositor (checked under SpecPaste).                 *)
(***************************************************************************)
Pasted == call.fn = "paste" /\ call.step = "returned" /\ ~call.raised

\* C21, as claimed: with E = max(target_width, 30), the watermark that is
\* pasted has width min(watermark width, E): it is scaled down to E when
\* wider than E and left as it is otherwise.
C21_PastedWidth ==
    Pasted =>
        call.pasted.width = Min(call.watermark.width, Max(call.target_width, 30))

\* C23: the paste offset is x = m for a code with 'L', W - w - m for one
\* with 'R' and floor((W - w) / 2) otherwise, y = m for a code with 'T',
\* H - h - m for one with 'B' and floor((H - h) / 2) otherwise, (w, h) the
\* size of the watermark that is pasted: a centered axis ignores the margin.
C23_PasteOffset ==
    Pasted =>
        LET W == call.base_size[1]
            H == call.base_size[2]
            w == call.pasted.width
            h == call.pasted.height
            m == call.margin
            horizontal == call.position[2]
            vertical == call.position[1]
        IN  /\ call.at[1] = CASE horizontal = "L" -> m
                               [] horizontal = "R" -> W - w - m
                               [] OTHER -> IF (W - w) % 2 = 0 THEN (W - w) \div 2
                                           ELSE (W - w - 1) \div 2
            /\ call.at[2] = CASE vertical = "T" -> m
                               [] vertical = "B" -> H - h - m
                               [] OTHER -> IF (H - h) % 2 = 0 THEN (H - h) \div 2
                                           ELSE (H - h - 1) \div 2

\* C23, witnessed: a watermark wider than the base image, centered with a
\* margin: the offset is the floor of a negative half
C23_Witness ==
    /\ Pasted
    /\ call.position = <<"C", "C">>
    /\ call.margin > 0
    /\ call.base_size[1] - call.pasted.width = -7
    /\ call.at[1] = -4


\* C30, as claimed: for every width, height and max_dimension of at least 1
\* the resize returns an image whose width and height are at least 1.
C30_ResizedSidesPositive ==
    (/\ call.fn = "resize"
     /\ call.step = "returned"
     /\ call.width >= 1 /\ call.height >= 1 /\ call.max_dimension >= 1) =>
        /\ ~call.raised
        /\ call.size[1] >= 1
        /\ call.size[2] >= 1

(***************************************************************************)
(* Properties of the executor (checked under SpecPool).                    *)
(***************************************************************************)
\* C24 as stated: the tasks executing at the same time are at most
\* min(number of processors of the machine, 8).
C24_AtMostCpusOrEight ==
    call.fn = "pool" => call.running <= Min(call.cpus, WorkerCeiling)

\* C24, amended: the tasks executing at the same time are at most
\* min(n, 8), where n is the count os.cpu_count() reports, or 4 when it
\* reports None; whatever the number of files.
C24_AtMostReportedOrFourCappedAtEight ==
    call.fn = "pool" =>
        call.running <= Min(IF cpu_count = 0 THEN 4 ELSE cpu_count, 8)

\* C24, witnessed: more files and processors than the ceiling, 8 executing
C24_Witness ==
    /\ call.fn = "pool"
    /\ cpu_count > 8
    /\ call.total > 8
    /\ call.running = 8
    /\ call.queued > 0


=============================================================================
